---- MODULE Spec2Model ----
(***************************************************************************)
(* Model of src/renderer/renderer.rs: the Renderer orchestrator, its       *)
(* RenderTargets, the resize lifecycle and the per-frame recording done by *)
(* Renderer::render.                                                       *)
(*                                                                         *)
(* A texture view is a record carrying the identity of the texture the     *)
(* device created for it (id = number of textures the device had created   *)
(* before it), its label, its extent and its format.  A pass instance is a *)
(* record carrying its identity (id = number of passes constructed before  *)
(* it), the views it was constructed from and its output format.           *)
(* Option<T> is a sequence of length at most one.  Labels built with       *)
(* format!("... {}", i) are tuples <<"...", i>>.                           *)
(***************************************************************************)
EXTENDS Integers, Sequences, FiniteSets, TLC

(* ---------------------------- bounds ----------------------------------- *)
\* widths and heights range over DOWNSAMPLE..MaxDim (a smaller extent makes
\* the quarter-size textures empty, which the device rejects), plus the
\* sizes the specification's scenario names.
MaxDim == 6
MaxResizes == 2
MaxFrames == 2
MaxScene == 1

(* ---------------------------- constants -------------------------------- *)
HDR_TEXTURE_FORMAT == "Rgba16Float"
DEPTH_TEXTURE_FORMAT == "Depth32Float"
\* RenderTargets::new: (0..16)
NUM_BLUR == 16
\* RenderTargets::new: width / 4, height / 4
DOWNSAMPLE == 4
\* wgpu::Color::TRANSPARENT: r, g, b, a all zero
TRANSPARENT == <<0, 0, 0, 0>>
\* LoadOp::Clear(1.0) of the depth attachment
DEPTH_CLEAR == 1

Dims == DOWNSAMPLE..MaxDim
Sizes == (Dims \X Dims) \cup {<<1280, 720>>, <<640, 480>>, <<320, 240>>}
SurfaceFormats == {"Bgra8UnormSrgb", "Rgba8UnormSrgb"}
Scenes == 0..MaxScene

VARIABLES
    handles,                      \* the surface, device and queue objects made by new
    surface,                      \* the configuration last given to surface.configure
    surface_format,
    device_textures,              \* number of textures the device has created
    device_passes,                \* number of pass instances constructed
    render_targets,
    particle_renderer,
    bright_pass_render_pass,
    bloom_blur_render_pass,
    bloom_combine_render_pass,
    bloom_blur_render_passes,
    bloom_combine_render_passes,
    compose_render_pass,
    size,                         \* Size { width, height } of the last new/resize
    resizes,                      \* number of resize calls so far
    setup,                        \* calls made by the last new/resize, in order
    frames,                       \* number of render calls started so far
    pc,                           \* position inside render, "idle" between calls
    i,                            \* index of the blur loop of render
    encoder,                      \* scopes recorded into the command encoder
    surface_texture,              \* Option: the surface image acquired by render
    trace                         \* calls made by the current/last render call

renderer == <<handles, setup, surface, surface_format, device_textures, device_passes,
              render_targets, particle_renderer, bright_pass_render_pass,
              bloom_blur_render_pass, bloom_combine_render_pass,
              bloom_blur_render_passes, bloom_combine_render_passes,
              compose_render_pass, size, resizes>>
frame == <<frames, pc, i, encoder, surface_texture, trace>>
vars == <<renderer, frame>>

\* one call, with the arguments the model keeps of it
Ev(e, a) == [ev |-> e, arg |-> a]

(* ---------------------------- RenderTargets ---------------------------- *)
create_render_target_texture_view(id, label, width, height, format) ==
    [id |-> id, label |-> label, width |-> width, height |-> height,
     format |-> format]

\* RenderTargetsNew with the quarter size rounded up instead of down
RenderTargetsNew_RoundUp(base, width, height) ==
    [color |-> create_render_target_texture_view(
                   base, <<"Color Texture">>, width, height, HDR_TEXTURE_FORMAT),
     depth |-> create_render_target_texture_view(
                   base + 1, <<"Depth Texture">>, width, height, DEPTH_TEXTURE_FORMAT),
     bright_pass |-> create_render_target_texture_view(
                   base + 2, <<"Bright Pass Texture">>,
                   (width + 3) \div 4, (height + 3) \div 4, HDR_TEXTURE_FORMAT),
     bloom_blur |-> [k \in 1..16 |->
                   create_render_target_texture_view(
                       base + 2 + k, <<"Blur Texture", k - 1>>,
                       (width + 3) \div 4, (height + 3) \div 4, HDR_TEXTURE_FORMAT)],
     bloom |-> create_render_target_texture_view(
                   base + 19, <<"Bloom Texture">>,
                   (width + 3) \div 4, (height + 3) \div 4, HDR_TEXTURE_FORMAT)]

\* RenderTargetsNew with the bloom target left at full size
RenderTargetsNew_FullSizeBloom(base, width, height) ==
    [color |-> create_render_target_texture_view(
                   base, <<"Color Texture">>, width, height, HDR_TEXTURE_FORMAT),
     depth |-> create_render_target_texture_view(
                   base + 1, <<"Depth Texture">>, width, height, DEPTH_TEXTURE_FORMAT),
     bright_pass |-> create_render_target_texture_view(
                   base + 2, <<"Bright Pass Texture">>,
                   width \div 4, height \div 4, HDR_TEXTURE_FORMAT),
     bloom_blur |-> [k \in 1..16 |->
                   create_render_target_texture_view(
                       base + 2 + k, <<"Blur Texture", k - 1>>,
                       width \div 4, height \div 4, HDR_TEXTURE_FORMAT)],
     bloom |-> create_render_target_texture_view(
                   base + 19, <<"Bloom Texture">>, width, height, HDR_TEXTURE_FORMAT)]

\* RenderTargetsNew that allocates the bloom target before the blur targets
RenderTargetsNew_BloomFirst(base, width, height) ==
    [color |-> create_render_target_texture_view(
                   base, <<"Color Texture">>, width, height, HDR_TEXTURE_FORMAT),
     depth |-> create_render_target_texture_view(
                   base + 1, <<"Depth Texture">>, width, height, DEPTH_TEXTURE_FORMAT),
     bright_pass |-> create_render_target_texture_view(
                   base + 2, <<"Bright Pass Texture">>,
                   width \div 4, height \div 4, HDR_TEXTURE_FORMAT),
     bloom_blur |-> [k \in 1..16 |->
                   create_render_target_texture_view(
                       base + 3 + k, <<"Blur Texture", k - 1>>,
                       width \div 4, height \div 4, HDR_TEXTURE_FORMAT)],
     bloom |-> create_render_target_texture_view(
                   base + 3, <<"Bloom Texture">>,
                   width \div 4, height \div 4, HDR_TEXTURE_FORMAT)]

RenderTargetsNew(base, width, height) ==
    [color |-> create_render_target_texture_view(
                   base, <<"Color Texture">>, width, height, HDR_TEXTURE_FORMAT),
     depth |-> create_render_target_texture_view(
                   base + 1, <<"Depth Texture">>, width, height, DEPTH_TEXTURE_FORMAT),
     bright_pass |-> create_render_target_texture_view(
                   base + 2, <<"Bright Pass Texture">>,
                   width \div DOWNSAMPLE, height \div DOWNSAMPLE, HDR_TEXTURE_FORMAT),
     bloom_blur |-> [k \in 1..NUM_BLUR |->
                   create_render_target_texture_view(
                       base + 2 + k, <<"Blur Texture", k - 1>>,
                       width \div DOWNSAMPLE, height \div DOWNSAMPLE,
                       HDR_TEXTURE_FORMAT)],
     bloom |-> create_render_target_texture_view(
                   base + 3 + NUM_BLUR, <<"Bloom Texture">>,
                   width \div DOWNSAMPLE, height \div DOWNSAMPLE, HDR_TEXTURE_FORMAT)]

\* number of textures one RenderTargets::new creates
TargetsPerSet == 4 + NUM_BLUR

(* ---------------------------- passes ----------------------------------- *)
PassNew(id, kind, srcs, format) ==
    [id |-> id, kind |-> kind, src |-> srcs, format |-> format]

ParticleRendererBuild(id) ==
    [id |-> id, kind |-> "ParticleRenderer", src |-> <<>>,
     format |-> HDR_TEXTURE_FORMAT, depth_format |-> DEPTH_TEXTURE_FORMAT]
BrightPassRenderPassNew(id, src, format) == PassNew(id, "BrightPassRenderPass", <<src>>, format)
BlurRenderPassNew(id, src, format) == PassNew(id, "BlurRenderPass", <<src>>, format)
AddRenderPassNew(id, srcs, format) == PassNew(id, "AddRenderPass", srcs, format)
CopyRenderPassNew(id, src, format) == PassNew(id, "CopyRenderPass", <<src>>, format)
ComposeRenderPassNew(id, color, bloom, format) ==
    PassNew(id, "ComposeRenderPass", <<color, bloom>>, format)

SurfaceConfiguration(format, width, height) ==
    [usage |-> {"RENDER_ATTACHMENT"}, format |-> format,
     width |-> width, height |-> height, present_mode |-> "Fifo"]

\* src_texture_views that wires every cascade stage to its own target
src_texture_views_InPlace(rt) == rt.bloom_blur

\* src_texture_views without the leading bright-pass view
src_texture_views_NoBrightPass(rt) == SubSeq(rt.bloom_blur, 1, Len(rt.bloom_blur) - 1)

\* once(&bright_pass).chain(bloom_blur.iter().take(len - 1))
src_texture_views(rt) ==
    <<rt.bright_pass>> \o SubSeq(rt.bloom_blur, 1, Len(rt.bloom_blur) - 1)

(* ---------------------------- Renderer::new ---------------------------- *)
Init ==
    \E sz \in Sizes, fmt \in SurfaceFormats :
        LET width == sz[1]
            height == sz[2]
            rt == RenderTargetsNew(0, width, height)
            srcs == src_texture_views(rt)
        IN  /\ size = [width |-> width, height |-> height]
            /\ handles = [surface |-> "Surface", device |-> "Device", queue |-> "Queue"]
            /\ setup = <<Ev("configure_surface", <<width, height>>),
                         Ev("RenderTargets::new", <<width, height>>),
                         Ev("ParticleRendererBuilder::build", <<>>),
                         Ev("BrightPassRenderPass::new", <<>>),
                         Ev("BlurRenderPass::new", <<>>)>>
                        \o [k \in 1..Len(srcs) |-> Ev("BlurRenderPass::new", <<k - 1>>)]
                        \o <<Ev("AddRenderPass::new", <<>>)>>
                        \o [k \in 1..Len(rt.bloom_blur) |->
                               Ev("CopyRenderPass::new", <<k - 1>>)]
                        \o <<Ev("ComposeRenderPass::new", <<>>)>>
            /\ surface_format = fmt
            /\ surface = SurfaceConfiguration(fmt, width, height)
            /\ render_targets = rt
            /\ device_textures = TargetsPerSet
            /\ particle_renderer = ParticleRendererBuild(0)
            /\ bright_pass_render_pass =
                   BrightPassRenderPassNew(1, rt.color, HDR_TEXTURE_FORMAT)
            /\ bloom_blur_render_pass =
                   BlurRenderPassNew(2, rt.bright_pass, HDR_TEXTURE_FORMAT)
            /\ bloom_blur_render_passes =
                   [k \in 1..Len(srcs) |->
                       BlurRenderPassNew(2 + k, srcs[k], HDR_TEXTURE_FORMAT)]
            /\ bloom_combine_render_pass =
                   AddRenderPassNew(3 + Len(srcs),
                       <<rt.bloom_blur[1], rt.bloom_blur[2]>>, HDR_TEXTURE_FORMAT)
            /\ bloom_combine_render_passes =
                   [k \in 1..Len(rt.bloom_blur) |->
                       CopyRenderPassNew(3 + Len(srcs) + k, rt.bloom_blur[k],
                                         HDR_TEXTURE_FORMAT)]
            /\ compose_render_pass =
                   ComposeRenderPassNew(4 + Len(srcs) + Len(rt.bloom_blur),
                       rt.color, rt.bloom, fmt)
            /\ device_passes = 5 + Len(srcs) + Len(rt.bloom_blur)
            /\ resizes = 0
            /\ frames = 0
            /\ pc = "idle"
            /\ i = 0
            /\ encoder = <<>>
            /\ surface_texture = <<>>
            /\ trace = <<>>

(* ---------------------------- Renderer::resize ------------------------- *)
\* Resize that reconfigures the surface and rebuilds the three passes but
\* keeps the old RenderTargets
Resize_KeepTargets(sz) ==
    /\ pc = "idle"
    /\ resizes < MaxResizes
    /\ LET width == sz[1]
           height == sz[2]
           rt == render_targets
       IN  /\ size' = [width |-> width, height |-> height]
           /\ setup' = <<Ev("configure_surface", <<width, height>>),
                         Ev("BrightPassRenderPass::new", <<>>),
                         Ev("BlurRenderPass::new", <<>>),
                         Ev("ComposeRenderPass::new", <<>>)>>
           /\ surface' = SurfaceConfiguration(surface_format, width, height)
           /\ render_targets' = rt
           /\ device_textures' = device_textures
           /\ bright_pass_render_pass' =
                  BrightPassRenderPassNew(device_passes, rt.color, HDR_TEXTURE_FORMAT)
           /\ bloom_blur_render_pass' =
                  BlurRenderPassNew(device_passes + 1, rt.bright_pass, HDR_TEXTURE_FORMAT)
           /\ compose_render_pass' =
                  ComposeRenderPassNew(device_passes + 2, rt.color, rt.bloom,
                                       surface_format)
           /\ device_passes' = device_passes + 3
    /\ resizes' = resizes + 1
    /\ UNCHANGED <<handles, surface_format, particle_renderer, bloom_combine_render_pass,
                   bloom_blur_render_passes, bloom_combine_render_passes>>
    /\ UNCHANGED frame

\* Resize that resizes the existing textures instead of allocating a new set
Resize_InPlace(sz) ==
    /\ pc = "idle"
    /\ resizes < MaxResizes
    /\ LET width == sz[1]
           height == sz[2]
           rt == RenderTargetsNew(render_targets.color.id, width, height)
       IN  /\ size' = [width |-> width, height |-> height]
           /\ setup' = <<Ev("configure_surface", <<width, height>>),
                         Ev("RenderTargets::new", <<width, height>>),
                         Ev("BrightPassRenderPass::new", <<>>),
                         Ev("BlurRenderPass::new", <<>>),
                         Ev("ComposeRenderPass::new", <<>>)>>
           /\ surface' = SurfaceConfiguration(surface_format, width, height)
           /\ render_targets' = rt
           /\ device_textures' = device_textures
           /\ bright_pass_render_pass' =
                  BrightPassRenderPassNew(device_passes, rt.color, HDR_TEXTURE_FORMAT)
           /\ bloom_blur_render_pass' =
                  BlurRenderPassNew(device_passes + 1, rt.bright_pass, HDR_TEXTURE_FORMAT)
           /\ compose_render_pass' =
                  ComposeRenderPassNew(device_passes + 2, rt.color, rt.bloom,
                                       surface_format)
           /\ device_passes' = device_passes + 3
    /\ resizes' = resizes + 1
    /\ UNCHANGED <<handles, surface_format, particle_renderer, bloom_combine_render_pass,
                   bloom_blur_render_passes, bloom_combine_render_passes>>
    /\ UNCHANGED frame

\* Resize that also rebuilds the scene pass
Resize_RebuildsParticleRenderer(sz) ==
    /\ pc = "idle"
    /\ resizes < MaxResizes
    /\ LET width == sz[1]
           height == sz[2]
           rt == RenderTargetsNew(device_textures, width, height)
       IN  /\ size' = [width |-> width, height |-> height]
           /\ setup' = <<Ev("configure_surface", <<width, height>>),
                         Ev("RenderTargets::new", <<width, height>>),
                         Ev("BrightPassRenderPass::new", <<>>),
                         Ev("BlurRenderPass::new", <<>>),
                         Ev("ComposeRenderPass::new", <<>>)>>
           /\ surface' = SurfaceConfiguration(surface_format, width, height)
           /\ render_targets' = rt
           /\ device_textures' = device_textures + TargetsPerSet
           /\ bright_pass_render_pass' =
                  BrightPassRenderPassNew(device_passes, rt.color, HDR_TEXTURE_FORMAT)
           /\ bloom_blur_render_pass' =
                  BlurRenderPassNew(device_passes + 1, rt.bright_pass, HDR_TEXTURE_FORMAT)
           /\ compose_render_pass' =
                  ComposeRenderPassNew(device_passes + 2, rt.color, rt.bloom,
                                       surface_format)
           /\ particle_renderer' = ParticleRendererBuild(device_passes + 3)
           /\ device_passes' = device_passes + 4
    /\ resizes' = resizes + 1
    /\ UNCHANGED <<handles, surface_format, bloom_combine_render_pass,
                   bloom_blur_render_passes, bloom_combine_render_passes>>
    /\ UNCHANGED frame

\* Resize that forgets to reconfigure the surface
Resize_NoConfigure(sz) ==
    /\ pc = "idle"
    /\ resizes < MaxResizes
    /\ LET width == sz[1]
           height == sz[2]
           rt == RenderTargetsNew(device_textures, width, height)
       IN  /\ size' = [width |-> width, height |-> height]
           /\ setup' = <<Ev("RenderTargets::new", <<width, height>>),
                         Ev("BrightPassRenderPass::new", <<>>),
                         Ev("BlurRenderPass::new", <<>>),
                         Ev("ComposeRenderPass::new", <<>>)>>
           /\ surface' = surface
           /\ render_targets' = rt
           /\ device_textures' = device_textures + TargetsPerSet
           /\ bright_pass_render_pass' =
                  BrightPassRenderPassNew(device_passes, rt.color, HDR_TEXTURE_FORMAT)
           /\ bloom_blur_render_pass' =
                  BlurRenderPassNew(device_passes + 1, rt.bright_pass, HDR_TEXTURE_FORMAT)
           /\ compose_render_pass' =
                  ComposeRenderPassNew(device_passes + 2, rt.color, rt.bloom,
                                       surface_format)
           /\ device_passes' = device_passes + 3
    /\ resizes' = resizes + 1
    /\ UNCHANGED <<handles, surface_format, particle_renderer, bloom_combine_render_pass,
                   bloom_blur_render_passes, bloom_combine_render_passes>>
    /\ UNCHANGED frame

Resize(sz) ==
    /\ pc = "idle"
    /\ resizes < MaxResizes
    /\ LET width == sz[1]
           height == sz[2]
           rt == RenderTargetsNew(device_textures, width, height)
       IN  /\ size' = [width |-> width, height |-> height]
           /\ setup' = <<Ev("configure_surface", <<width, height>>),
                         Ev("RenderTargets::new", <<width, height>>),
                         Ev("BrightPassRenderPass::new", <<>>),
                         Ev("BlurRenderPass::new", <<>>),
                         Ev("ComposeRenderPass::new", <<>>)>>
           /\ surface' = SurfaceConfiguration(surface_format, width, height)
           /\ render_targets' = rt
           /\ device_textures' = device_textures + TargetsPerSet
           /\ bright_pass_render_pass' =
                  BrightPassRenderPassNew(device_passes, rt.color, HDR_TEXTURE_FORMAT)
           /\ bloom_blur_render_pass' =
                  BlurRenderPassNew(device_passes + 1, rt.bright_pass, HDR_TEXTURE_FORMAT)
           /\ compose_render_pass' =
                  ComposeRenderPassNew(device_passes + 2, rt.color, rt.bloom,
                                       surface_format)
           /\ device_passes' = device_passes + 3
    /\ resizes' = resizes + 1
    /\ UNCHANGED <<handles, surface_format, particle_renderer, bloom_combine_render_pass,
                   bloom_blur_render_passes, bloom_combine_render_passes>>
    /\ UNCHANGED frame

(* ---------------------------- Renderer::render ------------------------- *)
\* wgpu::Operations of every color attachment of render
ColorOps == [load |-> <<"Clear", TRANSPARENT>>, store |-> TRUE]
\* wgpu::Operations of the depth attachment of the particle render pass
\* DepthOps that keeps the depth contents
DepthOps_Store == [load |-> <<"Clear", DEPTH_CLEAR>>, store |-> TRUE]
DepthOps == [load |-> <<"Clear", DEPTH_CLEAR>>, store |-> FALSE]

\* one begin_render_pass .. end of block: the descriptor and the draws made
\* into the render pass while it was open
Scope(label, view, depth, draws) ==
    [label |-> label,
     color_attachments |-> <<[view |-> view, resolve_target |-> <<>>, ops |-> ColorOps]>>,
     depth_stencil_attachment |-> depth,
     draws |-> draws]

\* the calls one block of render makes: begin_render_pass, then its draws
ScopeCalls(label, names) ==
    <<Ev("begin_render_pass", label)>> \o [k \in 1..Len(names) |-> Ev("draw", names[k])]

\* RenderBegin that forgets the compose pass's update
RenderBegin_NoComposeUpdate(scene) ==
    /\ pc = "idle"
    /\ frames < MaxFrames
    /\ frames' = frames + 1
    /\ trace' = <<Ev("update", <<"particle_renderer", scene>>),
                  Ev("update", <<"bright_pass_render_pass", scene>>),
                  Ev("create_command_encoder", <<>>)>>
    /\ encoder' = <<>>
    /\ surface_texture' = <<>>
    /\ i' = 0
    /\ pc' = "particle"
    /\ UNCHANGED renderer

\* lines 165-172: the three updates, then create_command_encoder
RenderBegin(scene) ==
    /\ pc = "idle"
    /\ frames < MaxFrames
    /\ frames' = frames + 1
    /\ trace' = <<Ev("update", <<"particle_renderer", scene>>),
                  Ev("update", <<"bright_pass_render_pass", scene>>),
                  Ev("update", <<"compose_render_pass", scene>>),
                  Ev("create_command_encoder", <<>>)>>
    /\ encoder' = <<>>
    /\ surface_texture' = <<>>
    /\ i' = 0
    /\ pc' = "particle"
    /\ UNCHANGED renderer

\* lines 174-195
RecordParticle ==
    /\ pc = "particle"
    /\ encoder' = Append(encoder,
           Scope(<<"Particle Render Pass">>, render_targets.color,
                 <<[view |-> render_targets.depth, depth_ops |-> <<DepthOps>>,
                    stencil_ops |-> <<>>]>>,
                 <<particle_renderer>>))
    /\ trace' = trace \o ScopeCalls(<<"Particle Render Pass">>, <<<<"particle_renderer">>>>)
    /\ pc' = "bright_pass"
    /\ UNCHANGED <<renderer, frames, i, surface_texture>>

\* lines 197-211; then the blur loop starts at i = 0
RecordBrightPass ==
    /\ pc = "bright_pass"
    /\ encoder' = Append(encoder,
           Scope(<<"Bright Pass Render Pass">>, render_targets.bright_pass, <<>>,
                 <<bright_pass_render_pass>>))
    /\ trace' = trace \o ScopeCalls(<<"Bright Pass Render Pass">>,
                                    <<<<"bright_pass_render_pass">>>>)
    /\ i' = 0
    /\ pc' = IF 0 < Len(render_targets.bloom_blur) THEN "bloom_blur" ELSE "bloom_combine"
    /\ UNCHANGED <<renderer, frames, surface_texture>>

\* RecordBlur whose loop stops one stage early
RecordBlur_StopsEarly ==
    /\ pc = "bloom_blur"
    /\ i < Len(render_targets.bloom_blur)
    /\ encoder' = Append(encoder,
           Scope(<<"Bloom Blur Render Pass", i>>, render_targets.bloom_blur[i + 1], <<>>,
                 <<bloom_blur_render_passes[i + 1]>>))
    /\ trace' = trace \o ScopeCalls(<<"Bloom Blur Render Pass", i>>,
                                    <<<<"bloom_blur_render_passes", i>>>>)
    /\ i' = i + 1
    /\ pc' = IF i + 2 < Len(render_targets.bloom_blur) THEN "bloom_blur" ELSE "bloom_combine"
    /\ UNCHANGED <<renderer, frames, surface_texture>>

\* lines 229-243, one iteration of the loop
RecordBlur ==
    /\ pc = "bloom_blur"
    /\ i < Len(render_targets.bloom_blur)
    /\ encoder' = Append(encoder,
           Scope(<<"Bloom Blur Render Pass", i>>, render_targets.bloom_blur[i + 1], <<>>,
                 <<bloom_blur_render_passes[i + 1]>>))
    /\ trace' = trace \o ScopeCalls(<<"Bloom Blur Render Pass", i>>,
                                    <<<<"bloom_blur_render_passes", i>>>>)
    /\ i' = i + 1
    /\ pc' = IF i + 1 < Len(render_targets.bloom_blur) THEN "bloom_blur" ELSE "bloom_combine"
    /\ UNCHANGED <<renderer, frames, surface_texture>>

\* lines 245-262: one scope, one draw per copy pass in list order
RecordCombine ==
    /\ pc = "bloom_combine"
    /\ encoder' = Append(encoder,
           Scope(<<"Bloom Combine Render Pass">>, render_targets.bloom, <<>>,
                 bloom_combine_render_passes))
    /\ trace' = trace \o ScopeCalls(<<"Bloom Combine Render Pass">>,
                    [k \in 1..Len(bloom_combine_render_passes) |->
                        <<"bloom_combine_render_passes", k - 1>>])
    /\ pc' = "acquire"
    /\ UNCHANGED <<renderer, frames, i, surface_texture>>

\* lines 264-269: get_current_texture() returned Ok; the image has the
\* surface's configured extent and format
AcquireOk ==
    /\ pc = "acquire"
    /\ surface_texture' = <<[id |-> frames, width |-> surface.width,
                             height |-> surface.height, format |-> surface.format]>>
    /\ trace' = Append(trace, Ev("get_current_texture", <<"Ok", frames>>))
    /\ pc' = "compose"
    /\ UNCHANGED <<renderer, frames, i, encoder>>

\* AcquireErr that ignores the error and goes on to submit
AcquireErr_Ignored ==
    /\ pc = "acquire"
    /\ trace' = Append(trace, Ev("get_current_texture", <<"Err">>))
    /\ pc' = "submit"
    /\ UNCHANGED <<renderer, frames, i, encoder, surface_texture>>

\* lines 264-267: get_current_texture() returned Err; expect() panics
AcquireErr ==
    /\ pc = "acquire"
    /\ trace' = Append(trace, Ev("get_current_texture", <<"Err">>))
    /\ pc' = "panicked"
    /\ UNCHANGED <<renderer, frames, i, encoder, surface_texture>>

\* RecordCompose after which render returns without submitting
RecordCompose_Returns ==
    /\ pc = "compose"
    /\ trace' = trace \o ScopeCalls(<<"Compose Render Pass">>, <<<<"compose_render_pass">>>>)
    /\ encoder' = <<>>
    /\ surface_texture' = <<>>
    /\ pc' = "idle"
    /\ UNCHANGED <<renderer, frames, i>>

\* lines 271-285
RecordCompose ==
    /\ pc = "compose"
    /\ encoder' = Append(encoder,
           Scope(<<"Compose Render Pass">>, surface_texture[1], <<>>,
                 <<compose_render_pass>>))
    /\ trace' = trace \o ScopeCalls(<<"Compose Render Pass">>, <<<<"compose_render_pass">>>>)
    /\ pc' = "submit"
    /\ UNCHANGED <<renderer, frames, i, surface_texture>>

\* Submit that never hands the command buffer to the queue
Submit_Forgotten ==
    /\ pc = "submit"
    /\ trace' = trace
    /\ pc' = "present"
    /\ UNCHANGED <<renderer, frames, i, encoder, surface_texture>>

\* line 287: queue.submit(once(encoder.finish())); the command buffer holds
\* the scopes recorded so far
Submit ==
    /\ pc = "submit"
    /\ trace' = Append(trace, Ev("submit", <<Len(encoder)>>))
    /\ pc' = "present"
    /\ UNCHANGED <<renderer, frames, i, encoder, surface_texture>>

\* line 289: surface_texture.present(); render returns and its locals die
Present ==
    /\ pc = "present"
    /\ trace' = Append(trace, Ev("present", <<surface_texture[1].id>>))
    /\ encoder' = <<>>
    /\ surface_texture' = <<>>
    /\ pc' = "idle"
    /\ UNCHANGED <<renderer, frames, i>>

Next ==
    \/ \E sz \in Sizes : Resize(sz)
    \/ \E scene \in Scenes : RenderBegin(scene)
    \/ RecordParticle
    \/ RecordBrightPass
    \/ RecordBlur
    \/ RecordCombine
    \/ AcquireOk
    \/ AcquireErr
    \/ RecordCompose
    \/ Submit
    \/ Present

Spec == Init /\ [][Next]_vars

\* the steps of a render call in progress
RenderStep ==
    \/ RecordParticle
    \/ RecordBrightPass
    \/ RecordBlur
    \/ RecordCombine
    \/ AcquireOk
    \/ AcquireErr
    \/ RecordCompose
    \/ Submit
    \/ Present

\* render is straight-line code on one thread: once called, each of its
\* steps runs, and get_current_texture returns (Ok or Err) once it is called
FairSpec == Spec /\ WF_vars(RenderStep)

(* ---------------------------- helpers ---------------------------------- *)
Range(f) == {f[k] : k \in DOMAIN f}

\* the 20 views of a RenderTargets
ViewsOf(rt) == {rt.color, rt.depth, rt.bright_pass, rt.bloom} \cup Range(rt.bloom_blur)
\* the bloom-chain views of a RenderTargets
BloomFamily(rt) == {rt.bright_pass, rt.bloom} \cup Range(rt.bloom_blur)

\* every pass instance the Renderer owns that holds a direct view handle
ViewHoldingPasses ==
    {bright_pass_render_pass, bloom_blur_render_pass, bloom_combine_render_pass,
     compose_render_pass}
        \cup Range(bloom_blur_render_passes) \cup Range(bloom_combine_render_passes)

\* positions of the calls of one kind in the trace of the render call
Calls(e) == {k \in 1..Len(trace) : trace[k].ev = e}
\* a render call has run to its return
FrameDone == pc = "idle" /\ trace # <<>>

(* ---------------------------- C1 --------------------------------------- *)
\* C1: after resize returns, every pass that holds a direct view handle has
\* been rebuilt against the new RenderTargets: no pass of the Renderer has
\* an input view outside the current RenderTargets.
C1_NoStalePassInput ==
    \A p \in ViewHoldingPasses :
        \A k \in 1..Len(p.src) : p.src[k] \in ViewsOf(render_targets)

(* ---------------------------- C2 --------------------------------------- *)
\* C2: whenever render can be called, cascade blur pass 0 reads the current
\* bright-pass target and cascade blur pass i (i >= 1) reads the current
\* blur target i-1.
C2_CascadeReadsCurrentTargets ==
    pc = "idle" =>
        /\ bloom_blur_render_passes[1].src = <<render_targets.bright_pass>>
        /\ \A k \in 2..Len(bloom_blur_render_passes) :
               bloom_blur_render_passes[k].src = <<render_targets.bloom_blur[k - 1]>>

(* ---------------------------- C3 --------------------------------------- *)
\* C3: for the output size (w, h) last given to RenderTargets::new, the
\* bright-pass target, the 16 blur targets and the bloom target are
\* floor(w/4) x floor(h/4) (q = floor(w/4) iff 4q <= w < 4q + 4; (1280, 720)
\* gives (320, 180)); the color and depth targets are w x h.
C3_QuarterSizeTargets ==
    /\ render_targets.color.width = size.width
    /\ render_targets.color.height = size.height
    /\ render_targets.depth.width = size.width
    /\ render_targets.depth.height = size.height
    /\ Len(render_targets.bloom_blur) = 16
    /\ \A t \in BloomFamily(render_targets) :
           /\ 4 * t.width <= size.width
           /\ size.width < 4 * t.width + 4
           /\ 4 * t.height <= size.height
           /\ size.height < 4 * t.height + 4
           /\ (size.width = 1280 /\ size.height = 720)
                  => (t.width = 320 /\ t.height = 180)

\* a resize to 6 x 5 has allocated 1 x 1 bloom-family targets
C3_Witness ==
    /\ resizes >= 1
    /\ size = [width |-> 6, height |-> 5]
    /\ render_targets.bloom_blur[16].width = 1
    /\ render_targets.bloom_blur[16].height = 1

(* ---------------------------- C4 --------------------------------------- *)
\* C4: after any construction or resize, the bright-pass target, the 16
\* blur targets and the bloom target all have the same width, the same
\* height and the HDR pixel format.
C4_BloomChainUniform ==
    /\ \A s, t \in BloomFamily(render_targets) :
           s.width = t.width /\ s.height = t.height /\ s.format = t.format
    /\ \A t \in BloomFamily(render_targets) : t.format = "Rgba16Float"
    /\ Cardinality(BloomFamily(render_targets)) = 18

\* the targets of a second resize are uniform
C4_Witness ==
    /\ resizes = 2
    /\ render_targets.bloom.id = 3 * TargetsPerSet - 1
    /\ render_targets.bloom.width = render_targets.bright_pass.width

(* ---------------------------- C5 --------------------------------------- *)
Extent(t) == <<t.width, t.height>>
FullFamily(rt) == {rt.color, rt.depth}

\* the targets of rt have the extents the output size sz gives their family
ExtentsPerFamily(rt, sz) ==
    /\ \A t \in FullFamily(rt) : Extent(t) = <<sz.width, sz.height>>
    /\ \A t \in BloomFamily(rt) : Extent(t) = <<sz.width \div 4, sz.height \div 4>>

\* C5 as stated: after resize(w2, h2) every target has the extent of its
\* family, and when the size changed no target has the extent it had before
\* the resize.
C5_NoTargetKeepsExtent ==
    [][resizes' # resizes =>
          /\ ExtentsPerFamily(render_targets', size')
          /\ size' # size =>
                /\ Extent(render_targets'.color) # Extent(render_targets.color)
                /\ Extent(render_targets'.depth) # Extent(render_targets.depth)
                /\ Extent(render_targets'.bright_pass) # Extent(render_targets.bright_pass)
                /\ Extent(render_targets'.bloom) # Extent(render_targets.bloom)
                /\ \A k \in 1..16 :
                       Extent(render_targets'.bloom_blur[k])
                           # Extent(render_targets.bloom_blur[k])]_vars

\* C5 amended: after resize(w2, h2) every target has the extent of its
\* family; when the size changed the color and depth targets do not have
\* the extent they had before, and a bloom-family target has the extent it
\* had before exactly when (w2/4, h2/4) equals the old (w/4, h/4).
C5_ExtentsFollowResize ==
    [][resizes' # resizes =>
          /\ ExtentsPerFamily(render_targets', size')
          /\ size' # size =>
                /\ Extent(render_targets'.color) # Extent(render_targets.color)
                /\ Extent(render_targets'.depth) # Extent(render_targets.depth)
          /\ \A t \in BloomFamily(render_targets'), u \in BloomFamily(render_targets) :
                (Extent(t) = Extent(u))
                    <=> (/\ size'.width \div 4 = size.width \div 4
                         /\ size'.height \div 4 = size.height \div 4)]_vars

\* a resize from a size with 1 x 1 bloom targets (still seen through the
\* first copy pass) to 320 x 240 has happened
C5_Witness ==
    /\ resizes = 1
    /\ size = [width |-> 320, height |-> 240]
    /\ Extent(bloom_combine_render_passes[1].src[1]) = <<1, 1>>
    /\ Extent(render_targets.bloom_blur[1]) = <<80, 60>>
    /\ Extent(render_targets.color) = <<320, 240>>

(* ---------------------------- C6 --------------------------------------- *)
\* the scopes of one frame, in order
ExpectedLabels ==
    <<<<"Particle Render Pass">>, <<"Bright Pass Render Pass">>>>
        \o [k \in 1..16 |-> <<"Bloom Blur Render Pass", k - 1>>]
        \o <<<<"Bloom Combine Render Pass">>, <<"Compose Render Pass">>>>

IsPrefix(a, b) == Len(a) <= Len(b) /\ \A k \in 1..Len(a) : a[k] = b[k]

\* labels of the scopes recorded into the encoder so far
EncoderLabels == [k \in 1..Len(encoder) |-> encoder[k].label]

\* the begin_render_pass calls of the render call, in call order
RECURSIVE BeginLabels(_)
BeginLabels(n) ==
    IF n = 0 THEN <<>>
    ELSE IF trace[n].ev = "begin_render_pass"
         THEN Append(BeginLabels(n - 1), trace[n].arg)
         ELSE BeginLabels(n - 1)

\* the surface image of the render call has been acquired
Acquired == \E k \in Calls("get_current_texture") : trace[k].arg[1] = "Ok"

\* C6: a render call whose acquisition succeeds records Scene, Bright-Pass,
\* Blur 0..15, Combine, Compose in this order, each once; the Combine scope
\* holds one copy draw per cascade stage.  While recording, the scopes so
\* far are a prefix of that order.
C6_ScopeOrder ==
    /\ IsPrefix(EncoderLabels, ExpectedLabels)
    /\ IsPrefix(BeginLabels(Len(trace)), ExpectedLabels)
    /\ pc \in {"submit", "present"} =>
           /\ EncoderLabels = ExpectedLabels
           /\ Len(encoder[19].draws) = 16
           /\ \A k \in 1..16 : encoder[19].draws[k].kind = "CopyRenderPass"
    /\ (Acquired /\ (pc \in {"submit", "present"} \/ FrameDone)) =>
           BeginLabels(Len(trace)) = ExpectedLabels

\* a second frame has recorded all twenty scopes
C6_Witness ==
    /\ frames = 2
    /\ pc = "present"
    /\ Len(encoder) = 20
    /\ encoder[20].label = <<"Compose Render Pass">>

(* ---------------------------- C7 --------------------------------------- *)
\* C7: in every recorded frame the depth attachment (of the Scene scope, the
\* only scope with one) has load = clear to 1.0 and store = false, and every
\* scope's color attachment has load = clear to transparent and store = true.
C7_AttachmentOps ==
    \A k \in 1..Len(encoder) :
        /\ Len(encoder[k].color_attachments) = 1
        /\ encoder[k].color_attachments[1].ops
               = [load |-> <<"Clear", <<0, 0, 0, 0>>>>, store |-> TRUE]
        /\ IF k = 1
           THEN /\ Len(encoder[k].depth_stencil_attachment) = 1
                /\ encoder[k].depth_stencil_attachment[1].view = render_targets.depth
                /\ encoder[k].depth_stencil_attachment[1].depth_ops
                       = <<[load |-> <<"Clear", 1>>, store |-> FALSE]>>
                /\ encoder[k].color_attachments[1].view = render_targets.color
           ELSE /\ encoder[k].depth_stencil_attachment = <<>>
                /\ encoder[k].color_attachments[1].view
                       \in ({render_targets.bright_pass, render_targets.bloom}
                               \cup Range(render_targets.bloom_blur))
                           \cup Range(surface_texture)

\* a frame recorded after a resize holds all twenty scopes
C7_Witness ==
    /\ resizes >= 1
    /\ pc = "submit"
    /\ Len(encoder) = 20
    /\ encoder[1].depth_stencil_attachment # <<>>
    /\ encoder[20].color_attachments[1].view \in Range(surface_texture)

(* ---------------------------- C8 --------------------------------------- *)
\* C8: a render call that acquires a surface image submits at most once and
\* presents at most once; the submit comes after every scope and draw of the
\* frame (all five kinds recorded) and before the present; the presented
\* image is the acquired one; when the call returns both have happened
\* exactly once.
C8_SubmitThenPresent ==
    /\ Cardinality(Calls("submit")) <= 1
    /\ Cardinality(Calls("present")) <= 1
    /\ \A sub \in Calls("submit") :
           /\ BeginLabels(sub) = ExpectedLabels
           /\ \A k \in Calls("begin_render_pass") \cup Calls("draw") : k < sub
           /\ trace[sub].arg = <<20>>
    /\ \A pr \in Calls("present") :
           /\ \E sub \in Calls("submit") : sub < pr
           /\ \E a \in Calls("get_current_texture") :
                  a < pr /\ trace[a].arg = <<"Ok", trace[pr].arg[1]>>
    /\ (Acquired /\ FrameDone) =>
           /\ Cardinality(Calls("submit")) = 1
           /\ Cardinality(Calls("present")) = 1
           /\ trace[Len(trace)].ev = "present"
           /\ trace[Len(trace)].arg = <<frames>>

\* the second render call has returned after presenting its image
C8_Witness ==
    /\ FrameDone
    /\ frames = 2
    /\ trace[Len(trace)] = Ev("present", <<2>>)
    /\ trace[Len(trace) - 1].ev = "submit"

(* ---------------------------- C9 --------------------------------------- *)
\* C9: the surface image is acquired after the Combine scope (and its draws)
\* and before the Compose scope; the Compose scope's output attachment is
\* the acquired image; when the acquisition fails render panics and the call
\* neither submits nor presents.
C9_AcquireBetweenCombineAndCompose ==
    /\ Cardinality(Calls("get_current_texture")) <= 1
    /\ \A a \in Calls("get_current_texture") :
           /\ BeginLabels(a) = SubSeq(ExpectedLabels, 1, 19)
           /\ Cardinality({k \in Calls("draw") : k < a}) = 18 + 16
           /\ trace[a].arg[1] = "Err" =>
                  /\ pc = "panicked"
                  /\ Calls("submit") = {}
                  /\ Calls("present") = {}
                  /\ a = Len(trace)
    /\ \A c \in Calls("begin_render_pass") :
           trace[c].arg = <<"Compose Render Pass">> =>
               \E a \in Calls("get_current_texture") :
                   a < c /\ trace[a].arg[1] = "Ok"
    /\ \A k \in 1..Len(encoder) :
           encoder[k].label = <<"Compose Render Pass">> =>
               /\ surface_texture # <<>>
               /\ encoder[k].color_attachments[1].view = surface_texture[1]
               /\ \E a \in Calls("get_current_texture") :
                      trace[a].arg = <<"Ok", surface_texture[1].id>>
    /\ pc = "panicked" =>
           \E a \in Calls("get_current_texture") : trace[a].arg[1] = "Err"

\* the acquisition of a frame failed after its Combine scope was recorded
C9_Witness ==
    /\ pc = "panicked"
    /\ Len(encoder) = 19
    /\ encoder[19].label = <<"Bloom Combine Render Pass">>
    /\ trace[Len(trace)] = Ev("get_current_texture", <<"Err">>)

(* ---------------------------- C10 -------------------------------------- *)
UpdatedPasses == {"particle_renderer", "bright_pass_render_pass", "compose_render_pass"}

\* C10: in every render call each of the scene pass, the bright-pass pass
\* and the compose pass is updated exactly once, before any scope is begun
\* and before any draw; no other pass is updated.
C10_UpdatesFirst ==
    trace # <<>> =>
        /\ \A u \in Calls("update") : trace[u].arg[1] \in UpdatedPasses
        /\ \A name \in UpdatedPasses :
               Cardinality({u \in Calls("update") : trace[u].arg[1] = name}) = 1
        /\ \A u \in Calls("update") :
               \A k \in Calls("begin_render_pass") \cup Calls("draw") : u < k
        /\ \A u, v \in Calls("update") : trace[u].arg[2] = trace[v].arg[2]

\* a frame has drawn the compose pass after the three updates
C10_Witness ==
    /\ pc = "submit"
    /\ Cardinality(Calls("update")) = 3
    /\ \E k \in Calls("draw") : trace[k].arg = <<"compose_render_pass">>

(* ---------------------------- C11 -------------------------------------- *)
\* the views sampled by the passes drawn inside a scope
Sampled(scope) ==
    UNION {Range(scope.draws[d].src) : d \in 1..Len(scope.draws)}
\* the views a scope writes: its color attachment and its depth attachment
Written(scope) ==
    {scope.color_attachments[1].view}
        \cup {scope.depth_stencil_attachment[d].view :
                 d \in 1..Len(scope.depth_stencil_attachment)}

\* C11: in every recorded scope, no pass drawn inside the scope samples a
\* view the scope writes; blur scope i samples no view that is blur target
\* i (of any RenderTargets), and the Combine scope samples no bloom target.
C11_NoScopeSamplesItsOutput ==
    \A k \in 1..Len(encoder) :
        /\ Sampled(encoder[k]) \cap Written(encoder[k]) = {}
        /\ \A v \in Sampled(encoder[k]) :
               \A w \in Written(encoder[k]) : v.id # w.id \/ w \in Range(surface_texture)
        /\ encoder[k].label[1] = "Bloom Blur Render Pass" =>
               /\ Sampled(encoder[k]) # {}
               /\ \A v \in Sampled(encoder[k]) :
                      v.label # <<"Blur Texture", encoder[k].label[2]>>
        /\ encoder[k].label = <<"Bloom Combine Render Pass">> =>
               /\ Cardinality(Sampled(encoder[k])) = 16
               /\ \A v \in Sampled(encoder[k]) : v.label # <<"Bloom Texture">>

\* a frame recorded after a resize holds every scope with its draws
C11_Witness ==
    /\ resizes >= 1
    /\ pc = "present"
    /\ Len(encoder) = 20
    /\ \A k \in 2..20 : Sampled(encoder[k]) # {}

(* ---------------------------- C12 -------------------------------------- *)
\* C12: the Combine scope draws exactly the 16 copy passes in cascade order
\* 0..15, copy pass k sampling blur target k of the Renderer's
\* RenderTargets; the additive-combine pass and the single blur pass are
\* never drawn.
C12_CopyAccumulateActive ==
    /\ \A k \in 1..Len(encoder) :
           /\ encoder[k].label = <<"Bloom Combine Render Pass">> =>
                  /\ Len(encoder[k].draws) = 16
                  /\ \A j \in 1..16 :
                         /\ encoder[k].draws[j] = bloom_combine_render_passes[j]
                         /\ encoder[k].draws[j].kind = "CopyRenderPass"
                         /\ encoder[k].draws[j].src = <<render_targets.bloom_blur[j]>>
           /\ \A d \in 1..Len(encoder[k].draws) :
                  /\ encoder[k].draws[d].id # bloom_combine_render_pass.id
                  /\ encoder[k].draws[d].id # bloom_blur_render_pass.id
    /\ \A c \in Calls("draw") :
           /\ trace[c].arg # <<"bloom_combine_render_pass">>
           /\ trace[c].arg # <<"bloom_blur_render_pass">>

(* ---------------------------- C13 -------------------------------------- *)
\* every view the Renderer can reach: its targets and its passes' inputs
KnownViews ==
    ViewsOf(render_targets)
        \cup UNION {Range(p.src) : p \in ViewHoldingPasses}

\* C13: resize replaces the whole RenderTargets: each of the 20 views after
\* a resize belongs to a texture allocated by that resize, distinct from
\* every view of the previous set; only resize changes RenderTargets; and no
\* step changes the extent or format of an existing texture (before and
\* after every step, a texture id has one extent and one format).
C13_AtomicReplacement ==
    [][/\ resizes' # resizes =>
              /\ Cardinality({v.id : v \in ViewsOf(render_targets')}) = 20
              /\ \A v \in ViewsOf(render_targets') :
                     /\ v.id >= device_textures
                     /\ v.id < device_textures'
                     /\ \A u \in ViewsOf(render_targets) : v.id # u.id
       /\ render_targets' # render_targets => resizes' # resizes
       /\ LET both == KnownViews \cup KnownViews'
          IN  Cardinality({v.id : v \in both})
                  = Cardinality({<<v.id, v.width, v.height, v.format>> : v \in both})]_vars

\* a second resize has replaced the set while the cascade still holds a view
\* of the first set
C13_Witness ==
    /\ resizes = 2
    /\ render_targets.color.id = 2 * TargetsPerSet
    /\ bloom_blur_render_passes[1].src[1].id = 2
    /\ render_targets.color.width # bloom_combine_render_passes[1].src[1].width * 4

(* ---------------------------- C14 -------------------------------------- *)
\* C14: RenderTargets::new makes exactly 20 allocations, in the order color
\* (full size, HDR), depth (full size, depth format), bright-pass, blur
\* 0..15, bloom (quarter size, HDR); all 20 exist when it returns.
C14_AllocationOrder ==
    LET base == device_textures - 20
        rt == render_targets
        full == <<size.width, size.height>>
        quarter == <<size.width \div 4, size.height \div 4>>
        Is(t, id, label, extent, format) ==
            /\ t.id = id
            /\ t.label = label
            /\ <<t.width, t.height>> = extent
            /\ t.format = format
    IN  /\ device_textures = 20 * (resizes + 1)
        /\ Is(rt.color, base, <<"Color Texture">>, full, "Rgba16Float")
        /\ Is(rt.depth, base + 1, <<"Depth Texture">>, full, "Depth32Float")
        /\ Is(rt.bright_pass, base + 2, <<"Bright Pass Texture">>, quarter, "Rgba16Float")
        /\ DOMAIN rt.bloom_blur = 1..16
        /\ \A k \in 1..16 :
               Is(rt.bloom_blur[k], base + 2 + k, <<"Blur Texture", k - 1>>, quarter,
                  "Rgba16Float")
        /\ Is(rt.bloom, base + 19, <<"Bloom Texture">>, quarter, "Rgba16Float")
        /\ Cardinality({k \in 1..Len(setup) : setup[k].ev = "RenderTargets::new"}) = 1

\* the set allocated by a resize to 640 x 480 ends with the bloom target
C14_Witness ==
    /\ resizes = 1
    /\ size = [width |-> 640, height |-> 480]
    /\ render_targets.bloom.id = 39
    /\ render_targets.bloom_blur[16].id = 38

(* ---------------------------- C15 -------------------------------------- *)
\* C15: resize keeps the surface, device and queue objects and the surface
\* format; it only reconfigures the surface with the new width and height;
\* it does not rebuild the scene pass.
C15_ResizeKeepsContext ==
    [][resizes' # resizes =>
          /\ handles' = handles
          /\ surface_format' = surface_format
          /\ surface' = [surface EXCEPT !.width = size'.width, !.height = size'.height]
          /\ surface'.format = surface_format
          /\ particle_renderer' = particle_renderer
          /\ \A k \in 1..Len(setup') : setup'[k].ev # "ParticleRendererBuilder::build"
          /\ \E k \in 1..Len(setup') :
                 setup'[k] = Ev("configure_surface", <<size'.width, size'.height>>)]_vars

\* after two resizes the scene pass is still the one built by new, while
\* the compose pass has been rebuilt
C15_Witness ==
    /\ resizes = 2
    /\ particle_renderer.id = 0
    /\ compose_render_pass.id > 37
    /\ surface.width = 320
    /\ handles.device = "Device"

(* ---------------------------- C16 -------------------------------------- *)
\* C16 as stated: every render call that starts reaches the single queue
\* submission whatever the outcome of the acquisition, i.e. a render call
\* that has ended (returned or panicked) has submitted once.
C16_EveryFrameSubmits ==
    (FrameDone \/ pc = "panicked") => Cardinality(Calls("submit")) = 1

\* C16 amended: every render call that starts eventually either reaches the
\* queue submission or panics at a failed acquisition; every render call
\* whose acquisition succeeded eventually reaches the queue submission.
C16_SubmitsUnlessAcquireFails ==
    /\ (pc = "particle") ~> (Calls("submit") # {} \/ pc = "panicked")
    /\ (pc = "compose") ~> (Calls("submit") # {})

\* a second render call has acquired its image and submitted
C16_Witness ==
    /\ frames = 2
    /\ pc = "present"
    /\ Acquired
    /\ trace[Len(trace)].ev = "submit"

(* ---------------------------- C17 -------------------------------------- *)
\* C17: every view sampled by a pass drawn in a scope is the output
\* attachment of a scope recorded earlier in the same frame.
C17_SamplesWrittenThisFrame ==
    \A k \in 1..Len(encoder) :
        \A v \in Sampled(encoder[k]) :
            \E j \in 1..(k - 1) : encoder[j].color_attachments[1].view = v

(* ---------------------------- C18 -------------------------------------- *)
\* C18: the cascade blur pass list and the copy pass list are as long as
\* the current RenderTargets' blur target list (16), so the index of
\* render's blur loop is a valid index into the blur pass list.
C18_PassCountsMatchTargets ==
    /\ Len(render_targets.bloom_blur) = 16
    /\ Len(bloom_blur_render_passes) = Len(render_targets.bloom_blur)
    /\ Len(bloom_combine_render_passes) = Len(render_targets.bloom_blur)
    /\ pc = "bloom_blur" =>
           /\ i < Len(render_targets.bloom_blur)
           /\ i + 1 \in DOMAIN bloom_blur_render_passes
           /\ i + 1 \in DOMAIN render_targets.bloom_blur

\* after a resize the blur loop is about to record its last stage
C18_Witness ==
    /\ resizes >= 1
    /\ pc = "bloom_blur"
    /\ i = 15
    /\ Len(encoder) = 17

(* ---------------------------- C19 -------------------------------------- *)
\* position of the first call of one kind among the calls of new/resize
FirstSetup(e) ==
    CHOOSE k \in 1..Len(setup) :
        setup[k].ev = e /\ \A j \in 1..(k - 1) : setup[j].ev # e

\* C19: whenever render can be called, the surface's configured width and
\* height are those of the current color and depth targets; new and resize
\* configure the surface and then allocate the RenderTargets, both from the
\* same (width, height).
C19_SurfaceMatchesTargets ==
    pc = "idle" =>
        /\ surface.width = render_targets.color.width
        /\ surface.height = render_targets.color.height
        /\ surface.width = render_targets.depth.width
        /\ surface.height = render_targets.depth.height
        /\ \E k \in 1..Len(setup) : setup[k].ev = "configure_surface"
        /\ \E k \in 1..Len(setup) : setup[k].ev = "RenderTargets::new"
        /\ FirstSetup("configure_surface") < FirstSetup("RenderTargets::new")
        /\ setup[FirstSetup("configure_surface")].arg
               = setup[FirstSetup("RenderTargets::new")].arg
        /\ setup[FirstSetup("configure_surface")].arg = <<surface.width, surface.height>>

\* render can be called after a frame and a resize to 640 x 480
C19_Witness ==
    /\ pc = "idle"
    /\ resizes >= 1
    /\ FrameDone
    /\ surface.width = 640
    /\ render_targets.depth.height = 480

====
